---- MODULE Spec2Model ----
(***************************************************************************)
(* The `create` command of the scaffolding CLI: the init action            *)
(* (initAction.js), the helpers it calls (utils.js: removeDir,             *)
(* changePackageJson, npmInstall), the clone wrapper (gitClone.js) and the *)
(* prompts (interactive.js).                                               *)
(*                                                                         *)
(* Strings the code inspects character by character (the project name,     *)
(* the answers of the manifest prompt, manifest values) are sequences of   *)
(* UTF-16 code units.  Identifiers the code only compares as a whole       *)
(* (template names, repository locators, manifest keys) are TLA+ strings.  *)
(***************************************************************************)
EXTENDS Integers, Sequences, FiniteSets, TLC

\* ------------------------------------------------------------------ bounds

\* Longest project name explored.
MaxNameLen == 2

\* Longest answer / patch value explored when changePackageJson is called
\* directly.
MaxLen == 2

\* ------------------------------------------------------------ characters

\* String.prototype.trim strips WhiteSpace and LineTerminator code units.
WhiteSpace ==
  {9, 10, 11, 12, 13, 32, 160, 5760, 8232, 8233, 8239, 8287, 12288, 65279}
    \cup (8192..8202)

\* A faulty variant of the class: the range stops one short of U+9FFF and
\* the dot is missing.
IsIllegalCharNarrow(c) ==
  \/ c >= 19968 /\ c < 40959
  \/ c \in {96, 126, 33, 64, 35, 36, 37, 38, 94, 42, 40, 41, 91, 93, 92, 59, 58,
            60, 62, 63}

\* The character class of the name regex:
\*   [\u4E00-\u9FFF`~!@#$%&^*()\[\]\\;:\.<>?]
IsIllegalChar(c) ==
  \/ c >= 19968 /\ c <= 40959
  \/ c \in {96, 126, 33, 64, 35, 36, 37, 38, 94, 42, 40, 41, 91, 93, 92, 59, 58,
            46, 60, 62, 63}

\* name.match(/[...]/g) is truthy iff some code unit is in the class.
NameMatches(n) == \E i \in 1..Len(n) : IsIllegalChar(n[i])

\* Code units project names are built from: a and U+A000 (the first code
\* unit after the CJK range) are legal; the dot, ?, backslash, U+4E00 and
\* U+9FFF are in the class.
NameChars == {97, 46, 63, 92, 19968, 40959, 40960}

RECURSIVE SeqsUpTo(_, _)
SeqsUpTo(S, n) ==
  IF n = 0 THEN {<<>>}
  ELSE LET shorter == SeqsUpTo(S, n - 1)
       IN  shorter \cup {Append(s, c) : s \in {t \in shorter : Len(t) = n - 1}, c \in S}

Names == SeqsUpTo(NameChars, MaxNameLen) \ {<<>>}

\* ------------------------------------------------------------- registry

\* constants.js: the template registry (name, value = repository locator,
\* desc), in registration order.
templates ==
  << [name |-> "vue",   value |-> "github:demo/vue-template",   desc |-> "vue"],
     [name |-> "react", value |-> "github:demo/react-template", desc |-> "react"] >>

\* constants.js: the questions of the manifest prompt, by answer key.
messages == <<"name", "keywords", "description">>

MsgFields == {messages[i] : i \in DOMAIN messages}

\* templates.find(template => template.name === t): the first match, or
\* NotFound.
NotFound == [name |-> "", value |-> "", desc |-> ""]

Find(t) ==
  IF \E i \in DOMAIN templates : templates[i].name = t
  THEN templates[CHOOSE i \in DOMAIN templates :
                   /\ templates[i].name = t
                   /\ \A j \in 1..(i - 1) : templates[j].name # t]
  ELSE NotFound

\* ------------------------------------------------------- option.template

\* commander gives undefined (flag absent), true (flag without a value) or
\* the string given.
Undefined == [kind |-> "undefined", str |-> ""]
FlagOnly  == [kind |-> "true", str |-> ""]
Given(s)  == [kind |-> "string", str |-> s]

TemplateOptions ==
  {Undefined, FlagOnly, Given(""), Given("vue"), Given("nope")}

\* JavaScript truthiness of option.template.
Truthy(t) == t.kind = "true" \/ (t.kind = "string" /\ t.str # "")

\* template.name === option.template: true (the boolean) equals no name.
Lookup(t) == IF t.kind = "string" THEN Find(t.str) ELSE NotFound

\* ------------------------------------------------------- manifest values

Absent  == [kind |-> "absent", str |-> <<>>, list |-> <<>>]
Str(s)  == [kind |-> "str", str |-> s, list |-> <<>>]
List(l) == [kind |-> "list", str |-> <<>>, list |-> l]

\* Keys of a manifest object that the model tracks.
Fields == {"name", "keywords", "description", "version"}

EmptyPkg == [f \in Fields |-> Absent]

FullPkg ==
  [f \in Fields |->
     CASE f = "name"        -> Str(<<116>>)
       [] f = "keywords"    -> List(<< <<107>> >>)
       [] f = "description" -> Str(<<100>>)
       [] f = "version"     -> Str(<<49>>)]

PkgSamples == {EmptyPkg, FullPkg}

Unreadable == [readable |-> FALSE, obj |-> EmptyPkg]
OnDisk(p)  == [readable |-> TRUE, obj |-> p]

\* ------------------------------------------------------ string functions

RECURSIVE TrimStart(_)
TrimStart(s) ==
  IF s # <<>> /\ Head(s) \in WhiteSpace THEN TrimStart(Tail(s)) ELSE s

RECURSIVE TrimEnd(_)
TrimEnd(s) ==
  IF s # <<>> /\ s[Len(s)] \in WhiteSpace
  THEN TrimEnd(SubSeq(s, 1, Len(s) - 1))
  ELSE s

\* String.prototype.trim
Trim(s) == TrimEnd(TrimStart(s))

\* A faulty variant of Split: empty segments are dropped.
RECURSIVE SplitDropsEmpty(_)
SplitDropsEmpty(s) ==
  IF \E i \in 1..Len(s) : s[i] = 44
  THEN LET i == CHOOSE k \in 1..Len(s) :
                  s[k] = 44 /\ \A j \in 1..(k - 1) : s[j] # 44
           rest == SplitDropsEmpty(SubSeq(s, i + 1, Len(s)))
       IN  IF i = 1 THEN rest ELSE <<SubSeq(s, 1, i - 1)>> \o rest
  ELSE IF s = <<>> THEN <<>> ELSE <<s>>

\* String.prototype.split(','): the segments between the commas, in order;
\* a string without a comma gives the one-element list of itself.
RECURSIVE Split(_)
Split(s) ==
  IF \E i \in 1..Len(s) : s[i] = 44
  THEN LET i == CHOOSE k \in 1..Len(s) :
                  s[k] = 44 /\ \A j \in 1..(k - 1) : s[j] # 44
       IN  <<SubSeq(s, 1, i - 1)>> \o Split(SubSeq(s, i + 1, Len(s)))
  ELSE <<s>>

\* ----------------------------------------------------- changePackageJson

\* A faulty variant of PatchField: the other fields are overwritten without
\* the blank check and the name is stored untrimmed.
PatchFieldUnchecked(item, old, v, projectName) ==
  IF item = "name"
  THEN Str(IF v # <<>> /\ Trim(v) # <<>> THEN v ELSE projectName)
  ELSE IF item = "keywords"
  THEN List(Split(v))
  ELSE Str(v)

\* One iteration of Object.keys(info).forEach: the new value of pkg[item].
PatchField(item, old, v, projectName) ==
  IF item = "name"
  THEN Str(IF v # <<>> /\ Trim(v) # <<>> THEN Trim(v) ELSE projectName)
  ELSE IF item = "keywords"
  THEN List(Split(v))
  ELSE IF v # <<>> /\ Trim(v) # <<>>
  THEN Str(v)
  ELSE old

\* The whole forEach: every key of info patches its own field of pkg.
ApplyPatch(p, info, projectName) ==
  [f \in Fields |->
     IF f \in DOMAIN info
     THEN PatchField(f, p[f], info[f], projectName)
     ELSE p[f]]

\* ------------------------------------------------------------------ state

VARIABLES
  name,        \* the <app-name> argument
  option,      \* [template, force, ignore]
  gitInstalled,\* whether shell.which('git') finds git
  existed,     \* whether the destination existed when the command started
  dir,         \* the destination: "absent", "present" (pre-existing),
               \* "cloned" or "partial" (a failed clone)
  pkgJson,     \* <name>/package.json on disk
  repository,  \* the local `repository`
  answers,     \* the local `answers` of the manifest prompt (info)
  pkg,         \* the local `pkg` of changePackageJson
  pc,          \* where the init action is
  exitCode,    \* the status the process ends with (meaningful at pc = "exit")
  log          \* calls to collaborators, prompts, answers and messages, in order

vars ==
  <<name, option, gitInstalled, existed, dir, pkgJson, repository, answers,
    pkg, pc, exitCode, log>>

NoAnswers == [f \in {} |-> <<>>]

Say(events) == log' = log \o events

\* shell.exit(code): process.exit(code).
Exit(code) == pc' = "exit" /\ exitCode' = code

\* `return` from the action: nothing is pending, the process ends with the
\* default status.
Return == pc' = "exit" /\ exitCode' = 0

\* ------------------------------------------------------------------- init

Init ==
  /\ name \in Names
  /\ option \in [template : TemplateOptions, force : BOOLEAN, ignore : BOOLEAN]
  /\ gitInstalled \in BOOLEAN
  /\ existed \in BOOLEAN
  /\ dir = IF existed THEN "present" ELSE "absent"
  /\ pkgJson = Unreadable
  /\ repository = ""
  /\ answers = NoAnswers
  /\ pkg = EmptyPkg
  /\ pc = "checkEnv"
  /\ exitCode = 0
  /\ log = <<>>

\* ------------------------------------------------ initAction.js, by step

\* 1. if (!shell.which('git')) { ...; shell.exit(1) }
CheckEnv ==
  /\ pc = "checkEnv"
  /\ IF gitInstalled
     THEN pc' = "validateName" /\ UNCHANGED <<exitCode, log>>
     ELSE Exit(1) /\ Say(<<"err:git">>)
  /\ UNCHANGED <<name, option, gitInstalled, existed, dir, pkgJson, repository,
                 answers, pkg>>

\* 2. if (name.match(...)) { ...; return }
ValidateName ==
  /\ pc = "validateName"
  /\ IF NameMatches(name)
     THEN Return /\ Say(<<"err:name">>)
     ELSE pc' = "resolveTemplate" /\ UNCHANGED <<exitCode, log>>
  /\ UNCHANGED <<name, option, gitInstalled, existed, dir, pkgJson, repository,
                 answers, pkg>>

\* 3. if (option.template) { find, or return } else { await inquirerChoose }
ResolveTemplate ==
  /\ pc = "resolveTemplate"
  /\ IF Truthy(option.template)
     THEN IF Lookup(option.template) = NotFound
          THEN Return /\ Say(<<"err:template">>) /\ UNCHANGED repository
          ELSE /\ repository' = Lookup(option.template).value
               /\ pc' = "resolveDestination"
               /\ UNCHANGED <<exitCode, log>>
     ELSE /\ pc' = "choose"
          /\ Say(<<"choose">>)
          /\ UNCHANGED <<exitCode, repository>>
  /\ UNCHANGED <<name, option, gitInstalled, existed, dir, pkgJson, answers,
                 pkg>>

\* 3.2 the user picks one of the templates; answer.choose is its value.
InquirerChoose ==
  /\ pc = "choose"
  /\ \E i \in DOMAIN templates : repository' = templates[i].value
  /\ pc' = "resolveDestination"
  /\ UNCHANGED <<name, option, gitInstalled, existed, dir, pkgJson, answers,
                 pkg, exitCode, log>>

\* A faulty variant: the confirmation is asked whenever the directory exists.
AsksConfirmAlways(exists, force) == exists

\* 4.1 fs.existsSync(resolveApp(name)) && !option.force
AsksConfirm(exists, force) == exists /\ ~force

\* 4.2 fs.existsSync(name) && option.force
RemovesUnasked(exists, force) == exists /\ force

\* 4. the destination conflict: confirm, remove unasked, or go on.
ResolveDestination ==
  /\ pc = "resolveDestination"
  /\ IF AsksConfirm(dir # "absent", option.force)
     THEN pc' = "confirm" /\ Say(<<"warn:exists", "confirm">>)
     ELSE IF RemovesUnasked(dir # "absent", option.force)
     THEN pc' = "removeDir" /\ Say(<<"warn:exists">>)
     ELSE pc' = "clone" /\ UNCHANGED log
  /\ UNCHANGED <<name, option, gitInstalled, existed, dir, pkgJson, repository,
                 answers, pkg, exitCode>>

\* A faulty variant: declining does not return.
InquirerConfirmNoReturn ==
  /\ pc = "confirm"
  /\ \/ pc' = "removeDir" /\ Say(<<"answer:yes">>)
     \/ pc' = "clone" /\ Say(<<"answer:no", "err:exists">>)
  /\ UNCHANGED <<name, option, gitInstalled, existed, dir, pkgJson, repository,
                 answers, pkg, exitCode>>

\* 4.1 the user answers the confirmation: yes removes, no returns.
InquirerConfirm ==
  /\ pc = "confirm"
  /\ \/ pc' = "removeDir" /\ Say(<<"answer:yes">>) /\ UNCHANGED exitCode
     \/ Return /\ Say(<<"answer:no", "err:exists">>)
  /\ UNCHANGED <<name, option, gitInstalled, existed, dir, pkgJson, repository,
                 answers, pkg>>

\* utils.js removeDir: fs.remove succeeds, or fails and the error is
\* swallowed; either way the caller goes on.
RemoveDir ==
  /\ pc = "removeDir"
  /\ \/ dir' = "absent" /\ Say(<<"removeDir", "ok:remove">>)
     \/ dir' = dir /\ Say(<<"removeDir", "err:remove">>)
  /\ pc' = "clone"
  /\ UNCHANGED <<name, option, gitInstalled, existed, pkgJson, repository,
                 answers, pkg, exitCode>>

\* A faulty variant: the configuration is never skipped.
AfterCloneAlwaysAsks(ignore) == "inputs"

\* 6. if (!option.ignore) { inquirerInputs; changePackageJson }; npmInstall
AfterClone(ignore) == IF ignore THEN "install" ELSE "inputs"

\* A faulty variant: a failed clone is reported and the action goes on.
CloneFailed_GoesOn ==
  /\ pc' = AfterClone(option.ignore)
  /\ UNCHANGED exitCode

\* A faulty variant: a failed clone is tried again.
CloneFailedRetries ==
  /\ pc' = "clone"
  /\ UNCHANGED exitCode

\* 5. catch (err) { ...; shell.exit(1) }
CloneFailed == Exit(1)

\* 5. await clone(repository, name): the download fills the destination
\* (whatever manifest the template holds, or none), or fails and leaves it
\* in an unspecified state.
Clone ==
  /\ pc = "clone"
  /\ \/ /\ dir' = "cloned"
        /\ pkgJson' \in {Unreadable} \cup {OnDisk(p) : p \in PkgSamples}
        /\ Say(<<"clone", "ok:clone">>)
        /\ pc' = AfterClone(option.ignore)
        /\ UNCHANGED exitCode
     \/ /\ dir' \in {dir, "partial"}
        /\ Say(<<"clone", "err:clone", "err:create">>)
        /\ CloneFailed
        /\ UNCHANGED pkgJson
  /\ UNCHANGED <<name, option, gitInstalled, existed, repository, answers, pkg>>

\* Answers typed at the manifest prompt during a run: nothing, a blank, and
\* " a,b".
AnswerSamples == {<<>>, <<32>>, <<32, 97, 44, 98>>}

\* 6.1 await inquirerInputs(messages): one answer per question.
InquirerInputs ==
  /\ pc = "inputs"
  /\ answers' \in [MsgFields -> AnswerSamples]
  /\ Say(<<"inputs">>)
  /\ pc' = "readJson"
  /\ UNCHANGED <<name, option, gitInstalled, existed, dir, pkgJson, repository,
                 pkg, exitCode>>

\* A faulty variant: the error of the manifest step escapes the action.
ManifestFailedThrows == Exit(1)

\* utils.js changePackageJson, catch (err): report, and return normally to
\* the init action, which calls npmInstall next.
ManifestFailed == pc' = "install" /\ UNCHANGED exitCode

\* utils.js changePackageJson, up to the write: await fs.readJson, then the
\* forEach over the keys of info.
ReadJson ==
  /\ pc = "readJson"
  /\ \/ /\ pkgJson.readable
        /\ pkg' = ApplyPatch(pkgJson.obj, answers, name)
        /\ Say(<<"readJson">>)
        /\ pc' = "writeJson"
        /\ UNCHANGED exitCode
     \/ /\ ~pkgJson.readable
        /\ Say(<<"readJson", "err:pkg">>)
        /\ ManifestFailed
        /\ UNCHANGED pkg
  /\ UNCHANGED <<name, option, gitInstalled, existed, dir, pkgJson, repository,
                 answers>>

\* utils.js changePackageJson: await fs.writeJson(..., pkg, { spaces: 2 }).
\* A failed write leaves the old file or a broken one.
WriteJson ==
  /\ pc = "writeJson"
  /\ \/ /\ pkgJson' = OnDisk(pkg)
        /\ Say(<<"writeJson">>)
        /\ pc' = "install"
        /\ UNCHANGED exitCode
     \/ /\ pkgJson' \in {pkgJson, Unreadable}
        /\ Say(<<"writeJson", "err:pkg">>)
        /\ ManifestFailed
  /\ UNCHANGED <<name, option, gitInstalled, existed, dir, repository, answers,
                 pkg>>

\* utils.js npmInstall, after a successful install: shell.exit(1).
InstallSucceeded == Exit(1)

\* utils.js npmInstall: shell.exec(...).code !== 0 exits with 1; otherwise
\* the two success lines are printed and the process exits as well.
NpmInstall ==
  /\ pc = "install"
  /\ \/ Say(<<"install", "err:install">>) /\ Exit(1)
     \/ Say(<<"install", "ok:install", "ok:created">>) /\ InstallSucceeded
  /\ UNCHANGED <<name, option, gitInstalled, existed, dir, pkgJson, repository,
                 answers, pkg>>

Next ==
  \/ CheckEnv
  \/ ValidateName
  \/ ResolveTemplate
  \/ InquirerChoose
  \/ ResolveDestination
  \/ InquirerConfirm
  \/ RemoveDir
  \/ Clone
  \/ InquirerInputs
  \/ ReadJson
  \/ WriteJson
  \/ NpmInstall

\* One run of `create <app-name> [options]`.
Spec == Init /\ [][Next]_vars

\* ---------------------------------------- changePackageJson called alone

\* Code units of the values of a patch: a blank, a letter, the comma.
PatchChars == {32, 97, 44}

PatchStrings == SeqsUpTo(PatchChars, MaxLen)

\* Every info object over a subset of the prompt's keys.
Patches ==
  UNION {[keys -> PatchStrings] : keys \in SUBSET MsgFields}

\* Longer keyword strings, alone in the patch: "a,b,c", "b,,a", ",a b,".
KeywordSamples ==
  {<<97, 44, 98, 44, 99>>, <<98, 44, 44, 97>>, <<44, 97, 32, 98, 44>>}

KeywordPatches == {[f \in {"keywords"} |-> k] : k \in KeywordSamples}

\* changePackageJson(name, info) is about to run on a cloned project "pj".
PatchInit ==
  /\ name = <<112, 106>>
  /\ option = [template |-> Given("vue"), force |-> FALSE, ignore |-> FALSE]
  /\ gitInstalled = TRUE
  /\ existed = FALSE
  /\ dir = "cloned"
  /\ pkgJson \in {Unreadable} \cup {OnDisk(p) : p \in PkgSamples}
  /\ repository = templates[1].value
  /\ answers \in Patches \cup KeywordPatches
  /\ pkg = EmptyPkg
  /\ pc = "readJson"
  /\ exitCode = 0
  /\ log = <<"clone", "ok:clone", "inputs">>

PatchNext == ReadJson \/ WriteJson

PatchSpec == PatchInit /\ [][PatchNext]_vars

\* ------------------------------------------------------------ properties

Has(e) == \E i \in DOMAIN log : log[i] = e

Count(e) == Cardinality({i \in DOMAIN log : log[i] = e})

\* Every occurrence of a comes before every occurrence of b.
Precedes(a, b) ==
  \A i, j \in DOMAIN log : log[i] = a /\ log[j] = b => i < j

\* The manifest step: the prompt, the read and the write of package.json.
ManifestEvents == {"inputs", "readJson", "writeJson"}

\* Everything that follows destination resolution.
MutationEvents == {"removeDir", "clone"} \cup ManifestEvents \cup {"install"}

None(events) == \A i \in DOMAIN log : log[i] \notin events

DirAtStart == IF existed THEN "present" ELSE "absent"

\* C1: when the install step is reached and the install succeeds the process
\* exits with status 0, and a non-zero status is only produced by a fatal
\* failure (git unavailable, clone failed, install failed).
C1_ExitStatus ==
  pc = "exit" =>
    /\ Has("ok:install") => exitCode = 0
    /\ exitCode # 0 => Has("err:git") \/ Has("err:clone") \/ Has("err:install")

\* C2: an existing destination without force makes the run ask for
\* confirmation before anything is removed or cloned; once the user has
\* declined, the run has returned (status 0), the directory and its manifest
\* are as they were, and no removal, clone, manifest step or install has
\* happened.
C2_DeclineLeavesDestination ==
  /\ existed /\ ~option.force /\ (Has("removeDir") \/ Has("clone"))
       => Has("confirm") /\ Precedes("confirm", "removeDir")
                         /\ Precedes("confirm", "clone")
  /\ Has("answer:no") =>
       /\ pc = "exit" /\ exitCode = 0
       /\ dir = "present" /\ pkgJson = Unreadable
       /\ None(MutationEvents)

C2_Witness ==
  existed /\ ~option.force /\ Has("confirm") /\ Has("answer:no") /\ pc = "exit"

\* C3: with an existing destination and force, the confirmation is never
\* shown, and a clone is only ever started after removeDir was called, for
\* every template option and ignore flag.
C3_ForceRemovesBeforeFetch ==
  existed /\ option.force =>
    /\ ~Has("confirm")
    /\ ~Has("answer:yes") /\ ~Has("answer:no")
    /\ pc = "clone" \/ Has("clone") =>
         Count("removeDir") = 1 /\ Precedes("removeDir", "clone")

C3_Witness ==
  existed /\ option.force /\ Has("removeDir") /\ Has("clone")

\* The illegal set as the specification lists it: U+4E00..U+9FFF and
\* ` ~ ! @ # $ % & ^ * ( ) [ ] \ ; : . < > ?
IllegalSet ==
  (19968..40959) \cup
  {96, 126, 33, 64, 35, 36, 37, 38, 94, 42, 40, 41, 91, 93, 92, 59, 58, 46, 60,
   62, 63}

HasIllegalChar(n) == \E i \in 1..Len(n) : n[i] \in IllegalSet

\* C4: a name with an illegal character never gets past name validation,
\* whatever the options: nothing is prompted, removed, cloned, written or
\* installed, the destination is as it was, and when the run has ended with
\* git available it ended by the name error and a plain return.
C4_IllegalNameNoMutation ==
  HasIllegalChar(name) =>
    /\ pc \in {"checkEnv", "validateName", "exit"}
    /\ \A i \in DOMAIN log : log[i] \in {"err:git", "err:name"}
    /\ dir = DirAtStart /\ pkgJson = Unreadable
    /\ pc = "exit" /\ gitInstalled => log = <<"err:name">> /\ exitCode = 0

C4_Witness ==
  /\ HasIllegalChar(name) /\ pc = "exit" /\ Has("err:name")
  /\ existed /\ option.force /\ option.template = Given("vue")

\* A --template value that names a registered template.
Registered(t) ==
  t.kind = "string" /\ \E i \in DOMAIN templates : templates[i].name = t.str

\* C5: a --template value that is not a registered name aborts the run
\* before any clone: no confirmation, removal, clone, manifest step or
\* install, even with an existing destination and force.
C5_UnknownTemplateAborts ==
  option.template # Undefined /\ ~Registered(option.template) =>
    ~Has("confirm") /\ None(MutationEvents)

\* C6: once the clone has failed the process has exited with a non-zero
\* status, and no manifest prompt, manifest read or write, or install has
\* happened or happens.
C6_FetchFailureFatal ==
  Has("err:clone") =>
    /\ pc = "exit" /\ exitCode # 0
    /\ None(ManifestEvents \cup {"install"})

C6_Witness == Has("err:clone") /\ pc = "exit" /\ ~option.ignore

\* C7: a failed manifest step does not end the run: after the failure the
\* run is at the install step or has gone through it; and a run that has
\* ended after a successful clone without ignore has gone through the
\* manifest step and then through install, whether the manifest step failed
\* or not.
C7_ManifestFailureNonFatal ==
  /\ Has("err:pkg") => pc = "install" \/ Has("install")
  /\ Has("ok:clone") /\ ~option.ignore /\ pc = "exit" =>
       /\ Has("readJson") /\ Count("install") = 1
       /\ Precedes("readJson", "install") /\ Precedes("writeJson", "install")
       /\ Precedes("err:pkg", "install")

C7_Witness ==
  ~option.ignore /\ Has("err:pkg") /\ Has("writeJson") /\ Has("install")

\* C8: with ignore the manifest prompt is never shown and the manifest is
\* neither read nor written, and a run that ended after a successful clone
\* went through install; without ignore the prompt is shown right after a
\* successful clone, at most once in a run and exactly once, after the clone
\* and before install, in a run that reached install.
C8_IgnoreSkipsConfigure ==
  /\ option.ignore =>
       /\ None(ManifestEvents)
       /\ answers = NoAnswers /\ pkg = EmptyPkg
       /\ Has("ok:clone") => pc = "install" \/ Has("install")
  /\ ~option.ignore =>
       /\ Count("inputs") <= 1
       /\ Has("inputs") => Has("ok:clone") /\ Precedes("ok:clone", "inputs")
       /\ Has("ok:clone") => pc = "inputs" \/ Has("inputs")
       /\ pc = "install" \/ Has("install") =>
            Count("inputs") = 1 /\ Precedes("inputs", "install")

C8_Witness ==
  option.ignore /\ Has("ok:clone") /\ Has("ok:install") /\ pc = "exit"

\* A value that is not empty after trimming: some code unit is not white
\* space.
NonBlank(v) == \E i \in 1..Len(v) : v[i] \notin WhiteSpace

\* C9: when the patch has been applied (the write is pending), every field
\* other than name and keywords holds the patch value if the patch has the
\* field with a non-blank value, and the value read from disk otherwise; an
\* empty patch leaves the manifest as read.
C9_OtherFieldsPatched ==
  pc = "writeJson" =>
    /\ \A f \in Fields \ {"name", "keywords"} :
         pkg[f] = IF f \in DOMAIN answers /\ NonBlank(answers[f])
                  THEN Str(answers[f])
                  ELSE pkgJson.obj[f]
    /\ answers = NoAnswers => pkg = pkgJson.obj

C9_Witness ==
  /\ pc = "writeJson"
  /\ DOMAIN answers = {"description"}
  /\ answers["description"] = <<32>>
  /\ pkgJson.obj = FullPkg
  /\ pkg["description"] = Str(<<100>>)

\* s without its leading and trailing white space.
IsTrimOf(t, s) ==
  \E i, j \in 1..Len(s) :
    /\ i <= j /\ t = SubSeq(s, i, j)
    /\ s[i] \notin WhiteSpace /\ s[j] \notin WhiteSpace
    /\ \A k \in 1..Len(s) : k < i \/ k > j => s[k] \in WhiteSpace

\* C10: when the patch has name, the patched manifest name is the project
\* name if the given value is blank, and the given value without its
\* surrounding white space otherwise.
C10_NameFallback ==
  pc = "writeJson" /\ "name" \in DOMAIN answers =>
    /\ pkg["name"].kind = "str"
    /\ IF NonBlank(answers["name"])
       THEN IsTrimOf(pkg["name"].str, answers["name"])
       ELSE pkg["name"].str = name /\ NonBlank(pkg["name"].str)

C10_Witness ==
  /\ pc = "writeJson"
  /\ "name" \in DOMAIN answers
  /\ answers["name"] = <<32, 32>>
  /\ pkgJson.obj = FullPkg
  /\ pkg["name"] = Str(name)

\* The list joined with commas (Array.prototype.join(',')).
RECURSIVE Join(_)
Join(l) ==
  IF l = <<>> THEN <<>>
  ELSE IF Len(l) = 1 THEN l[1]
  ELSE l[1] \o <<44>> \o Join(Tail(l))

Commas(v) == Cardinality({i \in 1..Len(v) : v[i] = 44})

\* C11: when the patch has keywords, the patched manifest keywords is the
\* list of the comma-separated segments of the given string in their
\* order: one more segment than there are commas, no segment holds a comma,
\* and the segments joined with commas give the string back.
C11_KeywordsSplit ==
  pc = "writeJson" /\ "keywords" \in DOMAIN answers =>
    /\ pkg["keywords"].kind = "list"
    /\ Len(pkg["keywords"].list) = Commas(answers["keywords"]) + 1
    /\ \A i \in DOMAIN pkg["keywords"].list :
         Commas(pkg["keywords"].list[i]) = 0
    /\ Join(pkg["keywords"].list) = answers["keywords"]

C11_Witness ==
  /\ pc = "writeJson"
  /\ "keywords" \in DOMAIN answers
  /\ answers["keywords"] = <<97, 44, 98, 44, 99>>
  /\ pkg["keywords"] = List(<< <<97>>, <<98>>, <<99>> >>)

\* The stage a position of the init action belongs to: 1 environment check,
\* 2 name validation, 3 template resolution, 4 destination resolution,
\* 5 fetch, 6 configure, 7 install, 8 ended.
Stage(p) ==
  CASE p = "checkEnv"           -> 1
    [] p = "validateName"       -> 2
    [] p = "resolveTemplate"    -> 3
    [] p = "choose"             -> 3
    [] p = "resolveDestination" -> 4
    [] p = "confirm"            -> 4
    [] p = "removeDir"          -> 4
    [] p = "clone"              -> 5
    [] p = "inputs"             -> 6
    [] p = "readJson"           -> 6
    [] p = "writeJson"          -> 6
    [] p = "install"            -> 7
    [] p = "exit"               -> 8

\* The positions within a stage, in the order of the code.
StepInStage(p) ==
  CASE p \in {"choose", "confirm", "readJson"} -> 2
    [] p \in {"removeDir", "writeJson"}        -> 3
    [] OTHER                                   -> 1

\* A step moves on: to a later stage, or to a later position of the same
\* stage.
MovesOn(p, q) ==
  \/ Stage(q) > Stage(p)
  \/ Stage(q) = Stage(p) /\ StepInStage(q) > StepInStage(p)

RepositoryValues == {templates[i].value : i \in DOMAIN templates}

\* What holds of every state of a run: removal, clone and install are each
\* called at most once; install only after a clone that succeeded; a clone
\* only with the template resolved and the destination conflict resolved
\* (with an existing destination: force, or the user's yes, and in both
\* cases the call of removeDir).
C12_CallsInOrder ==
  /\ Count("removeDir") <= 1 /\ Count("clone") <= 1 /\ Count("install") <= 1
  /\ Count("choose") <= 1 /\ Count("confirm") <= 1 /\ Count("inputs") <= 1
  /\ Count("readJson") <= 1 /\ Count("writeJson") <= 1
  /\ pc = "install" \/ Has("install") =>
       Has("ok:clone") /\ ~Has("err:clone") /\ Precedes("ok:clone", "install")
  /\ pc = "clone" \/ Has("clone") =>
       /\ repository \in RepositoryValues
       /\ Precedes("choose", "clone") /\ Precedes("confirm", "clone")
       /\ Precedes("removeDir", "clone")
       /\ existed => Has("removeDir") /\ (option.force \/ Has("answer:yes"))
  /\ Precedes("clone", "inputs") /\ Precedes("inputs", "readJson")
  /\ Precedes("readJson", "writeJson") /\ Precedes("writeJson", "install")

\* C12: the stages are entered in the fixed order, each at most once and
\* never going back (every step of a run moves to a later position);
\* removal, fetch and install are each invoked at most once, install only
\* after a fetch that succeeded, fetch only after template and destination
\* resolution.
C12_StrictlySequential ==
  [][MovesOn(pc, pc') /\ C12_CallsInOrder']_vars

C12_Witness ==
  /\ pc = "exit" /\ Has("ok:install")
  /\ Has("choose") /\ Has("answer:yes") /\ Has("ok:remove")
  /\ Has("readJson") /\ Has("writeJson")

\* C13: a clone is only started with the destination absent: it was absent
\* from the start, or it was removed; a removal that failed does not lead
\* into the clone with the old directory in place.
C13_FetchOnlyIfAbsent ==
  /\ pc = "clone" => dir = "absent"
  /\ Has("err:remove") => ~Has("clone") /\ pc # "clone"

====
